---- MODULE Spec2Model ----
(***************************************************************************)
(* A model of src/src/main.rs: the chunk planner, read_chunk, the parallel *)
(* reduce, the sort and the print loop of main, and the Record type.       *)
(*                                                                         *)
(* Bytes are their ASCII codes.  File offsets are 0-based as in the code:  *)
(* the byte at offset p of file f is f[p + 1].                             *)
(***************************************************************************)
EXTENDS Integers, Sequences, FiniteSets

VARIABLES
    lines,        \* the records the input file was written from (environment)
    file,         \* the bytes of measurements.txt
    fileExists,   \* whether measurements.txt can be opened (main.rs:64)
    W,            \* rayon::current_num_threads()
    pc,           \* position of the main thread
    chunk_start,  \* main.rs:78
    chunk_end,    \* main.rs:79
    chunk_specs,  \* main.rs:86, the ranges collected so far
    tables,       \* the value each finished read_chunk call returned
    consumed,     \* bytes_consumed of each finished read_chunk call
    parts,        \* partial results of the parallel reduce
    outOfOrder,   \* some parse or merge happened out of chunk order
    data,         \* main.rs:142, the sorted vector
    out,          \* the report rows printed so far
    ioFaults,     \* I/O failures the environment may still inject
    ioFailed,     \* an I/O failure has happened
    recs,         \* Record values exercised on their own
    folded,       \* per record: how many times each value was folded into it
    reported,     \* the row just printed for one of these records, if any
    valueIn,      \* a value string of the input format, exercised on its own
    valuePc,      \* how far that value has got: read, parsed, rendered
    valueNum,     \* temp_num, the i16 parsed from it (main.rs:215)
    valueOut      \* the text printed for it (main.rs:146, 149)

vars == <<lines, file, fileExists, W, pc, chunk_start, chunk_end, chunk_specs,
          tables, consumed, parts, outOfOrder, data, out, ioFaults, ioFailed,
          recs, folded, reported, valueIn, valuePc, valueNum, valueOut>>

progVars == <<lines, file, fileExists, W, pc, chunk_start, chunk_end,
              chunk_specs, tables, consumed, parts, outOfOrder, data, out,
              ioFaults, ioFailed>>

recVars == <<recs, folded, reported>>

valVars == <<valueIn, valuePc, valueNum, valueOut>>

----------------------------------------------------------------------------
(* Bounds of the model *)

MaxLines == 4      \* lines per input file
MaxW == 3          \* worker threads
MaxFold == 3       \* values folded into one Record in the Record algebra
MaxIntDigits == 4  \* digits before the '.' of a value string

----------------------------------------------------------------------------
(* Bytes the code compares against *)

NL == 10           \* b'\n'
SEMI == 59         \* b';'
DOT == 46          \* b'.'
MINUS == 45        \* b'-' (sign accepted by atoi_simd::parse::<i16>)
DIGIT0 == 48       \* b'0'
I16_MAX == 32767
I16_MIN == -32768

Min2(a, b) == IF a <= b THEN a ELSE b
Max2(a, b) == IF a >= b THEN a ELSE b

----------------------------------------------------------------------------
(* struct Record and impl Record *)

NewBadTotal(temp) == [min |-> temp, max |-> temp, total |-> 0, count |-> 1]

\* Record::new
New(temp) == [min |-> temp, max |-> temp, total |-> temp, count |-> 1]

AddNoCount(self, temp) ==
    [min |-> Min2(self.min, temp), max |-> Max2(self.max, temp),
     total |-> self.total + temp, count |-> self.count]

\* Record::add
Add(self, temp) ==
    [min |-> Min2(self.min, temp), max |-> Max2(self.max, temp),
     total |-> self.total + temp, count |-> self.count + 1]

CombineTakesOtherMin(self, other) ==
    [min |-> other.min, max |-> Max2(self.max, other.max),
     total |-> self.total + other.total, count |-> self.count + other.count]

\* Record::combine.  total is an i64 and count a u64: with i16 values and the
\* counts of this model neither can leave its range, so plain integers are exact.
Combine(self, other) ==
    [min |-> Min2(self.min, other.min), max |-> Max2(self.max, other.max),
     total |-> self.total + other.total, count |-> self.count + other.count]

----------------------------------------------------------------------------
(* Reading bytes *)

Size(f) == Len(f)

\* reader_bytes.next() after a seek to offset p: the byte, or "none" at or
\* beyond end of file (a seek beyond the end succeeds and reads nothing).
HasByte(f, p) == p >= 0 /\ p < Len(f)
ByteAt(f, p) == f[p + 1]

\* main.rs:96-103: the number of bytes the boundary scan reads from offset p,
\* up to and including the first b'\n', or up to end of file.
RECURSIVE ScanOffset(_, _)
ScanOffset(f, p) ==
    IF ~HasByte(f, p) THEN 0
    ELSE IF ByteAt(f, p) = NL THEN 1
    ELSE 1 + ScanOffset(f, p + 1)

----------------------------------------------------------------------------
(* The chunk planner, main.rs:75-114 *)

\* main.rs:81
ChunkSize(f, w) == Size(f) \div w

\* main.rs:108, the end of the emitted range
EmitEnd(size, end) == Min2(size, end)

\* main.rs:111, the start of the next range: the local chunk_end, unclamped
NextStart(size, end) == end

\* One call of the closure of main.rs:86-114 with the captured chunk_start
\* equal to cstart, the boundary scan reading `offset` bytes.
\*   outer: the value left in the captured chunk_end (main.rs:87)
\*   range: the tuple returned (main.rs:108)
\*   next:  the value left in the captured chunk_start (main.rs:111)
PlanStepWith(f, w, cstart, offset) ==
    LET outer == cstart + ChunkSize(f, w)       \* main.rs:87
        end   == outer + offset                 \* main.rs:105 (shadows chunk_end)
    IN  [outer |-> outer,
         range |-> <<cstart, EmitEnd(Size(f), end)>>,
         next  |-> NextStart(Size(f), end)]

PlanStep(f, w, cstart) ==
    PlanStepWith(f, w, cstart, ScanOffset(f, cstart + ChunkSize(f, w)))

\* The whole map(...).collect() of main.rs:86-114 for w workers.
RECURSIVE PlanFrom(_, _, _, _)
PlanFrom(f, w, cstart, n) ==
    IF n = 0 THEN <<>>
    ELSE LET s == PlanStep(f, w, cstart)
         IN  <<s.range>> \o PlanFrom(f, w, s.next, n - 1)

Plan(f, w) == PlanFrom(f, w, 0, w)

----------------------------------------------------------------------------
(* read_chunk, main.rs:156-231 *)

EmptyMap == <<>>

\* main.rs:187-196: read the name from offset p.  eof: reader_bytes.next()
\* returned None, on which unwrap() panics.  next: the offset after the b';'.
RECURSIVE ReadName(_, _, _)
ReadName(f, p, name) ==
    IF ~HasByte(f, p) THEN [eof |-> TRUE, bytes |-> name, next |-> p]
    ELSE IF ByteAt(f, p) = SEMI THEN [eof |-> FALSE, bytes |-> name, next |-> p + 1]
    ELSE ReadName(f, p + 1, Append(name, ByteAt(f, p)))

\* main.rs:202-211: read the temperature from offset p, dropping every b'.'.
RECURSIVE ReadTemp(_, _, _)
ReadTemp(f, p, temp) ==
    IF ~HasByte(f, p) THEN [eof |-> TRUE, bytes |-> temp, next |-> p]
    ELSE IF ByteAt(f, p) = NL THEN [eof |-> FALSE, bytes |-> temp, next |-> p + 1]
    ELSE IF ByteAt(f, p) # DOT THEN ReadTemp(f, p + 1, Append(temp, ByteAt(f, p)))
    ELSE ReadTemp(f, p + 1, temp)

IsDigit(c) == c >= DIGIT0 /\ c <= DIGIT0 + 9

RECURSIVE DigitsValue(_)
DigitsValue(ds) ==
    IF Len(ds) = 0 THEN 0
    ELSE 10 * DigitsValue(SubSeq(ds, 1, Len(ds) - 1)) + (ds[Len(ds)] - DIGIT0)

AtoiIgnoresSign(temp) ==
    LET neg == Len(temp) > 0 /\ temp[1] = MINUS
        ds  == IF neg THEN Tail(temp) ELSE temp
        v   == DigitsValue(ds)
    IN  IF Len(ds) = 0 \/ \E i \in 1..Len(ds) : ~IsDigit(ds[i])
        THEN [ok |-> FALSE, val |-> 0]
        ELSE [ok |-> v >= I16_MIN /\ v <= I16_MAX, val |-> v]

\* main.rs:215, atoi_simd::parse::<i16>: an optional b'-', then one or more
\* ASCII digits, the value within i16; anything else is Err, on which unwrap()
\* panics.
Atoi(temp) ==
    LET neg == Len(temp) > 0 /\ temp[1] = MINUS
        ds  == IF neg THEN Tail(temp) ELSE temp
        v   == IF neg THEN 0 - DigitsValue(ds) ELSE DigitsValue(ds)
    IN  IF Len(ds) = 0 \/ \E i \in 1..Len(ds) : ~IsDigit(ds[i])
        THEN [ok |-> FALSE, val |-> 0]
        ELSE [ok |-> v >= I16_MIN /\ v <= I16_MAX, val |-> v]

\* main.rs:217-221
Upsert(map, name, temp) ==
    [k \in DOMAIN map \cup {name} |->
        IF k = name
        THEN IF name \in DOMAIN map THEN Add(map[name], temp) ELSE New(temp)
        ELSE map[k]]

LoopDoneOneLate(bytes_consumed, total_bytes) == bytes_consumed > total_bytes

\* main.rs:223
LoopDone(bytes_consumed, total_bytes) == bytes_consumed >= total_bytes

\* main.rs:179-226: the loop, entered with bytes_consumed bytes read since
\* `start`.  status "panic": one of the unwrap() calls of the body panicked.
RECURSIVE ChunkLoop(_, _, _, _, _)
ChunkLoop(f, start, bytes_consumed, total_bytes, data_map) ==
    LET n == ReadName(f, start + bytes_consumed, <<>>)
        t == ReadTemp(f, n.next, <<>>)
        a == Atoi(t.bytes)
        m == Upsert(data_map, n.bytes, a.val)
    IN  IF n.eof
        THEN [status |-> "panic", map |-> data_map, consumed |-> n.next - start]
        ELSE IF t.eof \/ ~a.ok
        THEN [status |-> "panic", map |-> data_map, consumed |-> t.next - start]
        ELSE IF LoopDone(t.next - start, total_bytes)
        THEN [status |-> "ok", map |-> m, consumed |-> t.next - start]
        ELSE ChunkLoop(f, start, t.next - start, total_bytes, m)

ReadChunkToEndOfFile(f, start, end) ==
    IF end < start
    THEN [status |-> "panic", map |-> EmptyMap, consumed |-> 0]
    ELSE ChunkLoop(f, start, 0, Size(f) - start, EmptyMap)

\* read_chunk.  main.rs:177 is a u64 subtraction: with end < start it panics
\* where overflow checks are on, and where they are off total_bytes wraps to
\* 2^64 - (start - end), which bytes_consumed (at most the file size) never
\* reaches, so the loop runs into end of file and unwrap() panics there.  Both
\* builds end in a panic.
ReadChunk(f, start, end) ==
    IF end < start
    THEN [status |-> "panic", map |-> EmptyMap, consumed |-> 0]
    ELSE ChunkLoop(f, start, 0, end - start, EmptyMap)

----------------------------------------------------------------------------
(* The reduce, the sort and the print loop of main *)

ReduceOpKeepsLeft(map1, map2) ==
    [k \in DOMAIN map1 \cup DOMAIN map2 |->
        IF k \in DOMAIN map1 THEN map1[k] ELSE map2[k]]

\* main.rs:121-131, the closure given to reduce
ReduceOp(map1, map2) ==
    [k \in DOMAIN map1 \cup DOMAIN map2 |->
        IF k \in DOMAIN map1 /\ k \in DOMAIN map2 THEN Combine(map1[k], map2[k])
        ELSE IF k \in DOMAIN map1 THEN map1[k]
        ELSE map2[k]]

RECURSIVE LexLessShorterFirst(_, _)
LexLessShorterFirst(a, b) ==
    IF Len(a) # Len(b) THEN Len(a) < Len(b)
    ELSE IF Len(a) = 0 THEN FALSE
    ELSE IF a[1] # b[1] THEN a[1] < b[1]
    ELSE LexLessShorterFirst(Tail(a), Tail(b))

\* Vec<u8>::cmp of main.rs:143 giving Less: byte-lexicographic, a proper
\* prefix before the longer sequence.
RECURSIVE LexLess(_, _)
LexLess(a, b) ==
    IF Len(b) = 0 THEN FALSE
    ELSE IF Len(a) = 0 THEN TRUE
    ELSE IF a[1] # b[1] THEN a[1] < b[1]
    ELSE LexLess(Tail(a), Tail(b))

\* main.rs:142-143: the entries as a vector sorted by key
RECURSIVE SortKeys(_)
SortKeys(ks) ==
    IF ks = {} THEN <<>>
    ELSE LET least == CHOOSE k \in ks : \A o \in ks \ {k} : LexLess(k, o)
         IN  <<least>> \o SortKeys(ks \ {least})

SortData(map) ==
    LET ks == SortKeys(DOMAIN map)
    IN  [i \in 1..Len(ks) |-> [key |-> ks[i], value |-> map[ks[i]]]]

RoundQuotHalfTowardZero(n, d) ==
    IF n >= 0 THEN (2 * n + d - 1) \div (2 * d)
    ELSE 0 - ((2 * (0 - n) + d - 1) \div (2 * d))

\* f64::round of a quotient n/d (d > 0): nearest integer, halves away from zero
RoundQuot(n, d) ==
    IF n >= 0 THEN (2 * n + d) \div (2 * d)
    ELSE 0 - ((2 * (0 - n) + d) \div (2 * d))

Abs(n) == IF n < 0 THEN 0 - n ELSE n

\* The decimal digits of the natural number n, as bytes
RECURSIVE Digits(_)
Digits(n) ==
    IF n < 10 THEN <<DIGIT0 + n>>
    ELSE Digits(n \div 10) \o <<DIGIT0 + (n % 10)>>

\* main.rs:149, `{}` of the f64 that is mag/10 with sign neg: Display writes
\* the shortest decimal that reads back as the same f64, with no fractional
\* part when the value is a whole number (12.0 prints as 12, -0.0 as -0).
Display(neg, mag) ==
    (IF neg THEN <<MINUS>> ELSE <<>>)
        \o Digits(mag \div 10)
        \o (IF mag % 10 = 0 THEN <<>> ELSE <<DOT, DIGIT0 + (mag % 10)>>)

\* main.rs:146-149: a row.  min, mean, max: the three numbers in tenths.
\* (x as f64 / 10. * 10.).round() gives back the i16 x; the mean is
\* total / count rounded to a whole number of tenths, and keeps the sign of
\* total when it rounds to zero.  shown: the three numbers as printed.
\* text: the line printed, without its line terminator.
Row(e) ==
    LET min   == RoundQuot(e.value.min, 1)
        mean  == RoundQuot(e.value.total, e.value.count)
        max   == RoundQuot(e.value.max, 1)
        shown == << Display(e.value.min < 0, Abs(min)),
                    Display(e.value.total < 0, Abs(mean)),
                    Display(e.value.max < 0, Abs(max)) >>
    IN  [key   |-> e.key,
         min   |-> min,
         mean  |-> mean,
         max   |-> max,
         shown |-> shown,
         text  |-> e.key \o <<SEMI>> \o shown[1] \o <<SEMI>> \o shown[2]
                         \o <<SEMI>> \o shown[3]]

----------------------------------------------------------------------------
(* The input: measurements.txt *)

\* A line `key;value\n` of the input format, with the value it stands for in
\* tenths.  ok: the line is of the form <key>;-?[0-9]+\.[0-9]\n.
GoodLines ==
    { [key |-> <<97>>,     val |-> 30,  ok |-> TRUE,
       bytes |-> <<97, SEMI, 51, DOT, 48, NL>>],                \* a;3.0
      [key |-> <<97>>,     val |-> -50, ok |-> TRUE,
       bytes |-> <<97, SEMI, MINUS, 53, DOT, 48, NL>>],         \* a;-5.0
      [key |-> <<98>>,     val |-> 123, ok |-> TRUE,
       bytes |-> <<98, SEMI, 49, 50, DOT, 51, NL>>],            \* b;12.3
      [key |-> <<97, 98>>, val |-> -5,  ok |-> TRUE,
       bytes |-> <<97, 98, SEMI, MINUS, 48, DOT, 53, NL>>] }    \* ab;-0.5

\* Lines that are not of the input format.
BadLines ==
    { [key |-> <<97>>, val |-> 30,  ok |-> FALSE,
       bytes |-> <<97, 51, DOT, 48, NL>>],                      \* a3.0   no ';'
      [key |-> <<97>>, val |-> 30,  ok |-> FALSE,
       bytes |-> <<97, SEMI, 51, DOT, 48>>],                    \* a;3.0  no '\n'
      [key |-> <<97>>, val |-> 120, ok |-> FALSE,
       bytes |-> <<97, SEMI, 49, 50, NL>>] }                    \* a;12   no fraction

SeqsUpTo(S, n) == UNION { [1..k -> S] : k \in 0..n }

RECURSIVE Concat(_)
Concat(ls) == IF Len(ls) = 0 THEN <<>> ELSE Head(ls).bytes \o Concat(Tail(ls))

\* The offset at which line i of ls starts in Concat(ls)
RECURSIVE LineStart(_, _)
LineStart(ls, i) == IF i = 1 THEN 0 ELSE LineStart(ls, i - 1) + Len(ls[i - 1].bytes)

LineEnd(ls, i) == LineStart(ls, i) + Len(ls[i].bytes)

----------------------------------------------------------------------------
(* The program *)

Chunks == 1..W

ProgInit(lineSet, faults) ==
    /\ fileExists \in BOOLEAN
    /\ lines \in IF fileExists THEN SeqsUpTo(lineSet, MaxLines) ELSE {<<>>}
    /\ file = Concat(lines)
    /\ W \in 1..MaxW
    /\ pc = "open"
    /\ chunk_start = 0
    /\ chunk_end = 0
    /\ chunk_specs = <<>>
    /\ tables = [i \in 1..W |-> [done |-> FALSE, map |-> EmptyMap]]
    /\ consumed = [i \in 1..W |-> 0]
    /\ parts = {}
    /\ outOfOrder = FALSE
    /\ data = <<>>
    /\ out = <<>>
    /\ ioFaults \in faults
    /\ ioFailed = FALSE

RecIdle ==
    /\ recs = <<>>
    /\ folded = <<>>
    /\ reported = <<>>

ValIdle ==
    /\ valueIn = [neg |-> FALSE, int |-> <<0>>, frac |-> 0]
    /\ valuePc = "idle"
    /\ valueNum = 0
    /\ valueOut = <<>>

\* main.rs:64-83: the file opens; chunk_start, chunk_end and chunk_size are set
OpenFile ==
    /\ pc = "open"
    /\ fileExists
    /\ pc' = "plan"
    /\ chunk_start' = 0
    /\ chunk_end' = 0
    /\ UNCHANGED <<lines, file, fileExists, W, chunk_specs, tables, consumed,
                   parts, outOfOrder, data, out, ioFaults, ioFailed>>
    /\ UNCHANGED recVars
    /\ UNCHANGED valVars

\* generate::main() of main.rs:69.  The module is not part of the sources; by
\* its contract it writes a file of the input format at the expected path.
\* main discards its result (`let _ =`), so it may also have failed and left
\* things as they were.
Generated ==
    /\ fileExists' \in BOOLEAN
    /\ lines' \in IF fileExists' THEN SeqsUpTo(GoodLines, MaxLines) ELSE {lines}
    /\ file' = Concat(lines')

GenerateFileNoReturn ==
    /\ pc = "open"
    /\ ~fileExists
    /\ Generated
    /\ pc' = "plan"
    /\ UNCHANGED <<W, chunk_start, chunk_end,
                   chunk_specs, tables, consumed, parts, outOfOrder, data, out,
                   ioFaults, ioFailed>>
    /\ UNCHANGED recVars
    /\ UNCHANGED valVars

\* main.rs:67-71: the file does not open; generate::main() runs and main returns
GenerateFile ==
    /\ pc = "open"
    /\ ~fileExists
    /\ Generated
    /\ pc' = "generated"
    /\ UNCHANGED <<W, chunk_start, chunk_end,
                   chunk_specs, tables, consumed, parts, outOfOrder, data, out,
                   ioFaults, ioFailed>>
    /\ UNCHANGED recVars
    /\ UNCHANGED valVars

\* main.rs:86-114: one call of the closure; after the last one the vector is
\* collected and the parallel iterator of main.rs:119 starts.
PlanChunk ==
    /\ pc = "plan"
    /\ Len(chunk_specs) < W
    /\ LET s == PlanStep(file, W, chunk_start)
       IN  /\ chunk_end' = s.outer
           /\ chunk_start' = s.next
           /\ chunk_specs' = Append(chunk_specs, s.range)
    /\ pc' = IF Len(chunk_specs) + 1 = W THEN "parse" ELSE "plan"
    /\ UNCHANGED <<lines, file, fileExists, W, tables, consumed, parts,
                   outOfOrder, data, out, ioFaults, ioFailed>>
    /\ UNCHANGED recVars
    /\ UNCHANGED valVars

ParseChunkEager(i) ==
    /\ pc \in {"plan", "parse"}
    /\ i <= Len(chunk_specs)
    /\ ~tables[i].done
    /\ LET r == ReadChunk(file, chunk_specs[i][1], chunk_specs[i][2])
       IN  IF r.status = "panic"
           THEN /\ pc' = "panicked"
                /\ UNCHANGED <<tables, consumed, parts, outOfOrder>>
           ELSE /\ pc' = pc
                /\ tables' = [tables EXCEPT ![i] = [done |-> TRUE, map |-> r.map]]
                /\ consumed' = [consumed EXCEPT ![i] = r.consumed]
                /\ parts' = parts \cup
                       {[idx |-> {i}, map |-> ReduceOp(EmptyMap, r.map)]}
                /\ outOfOrder' =
                       (outOfOrder \/ \E j \in 1..(i - 1) : ~tables[j].done)
    /\ UNCHANGED <<lines, file, fileExists, W, chunk_start, chunk_end,
                   chunk_specs, data, out, ioFaults, ioFailed>>
    /\ UNCHANGED recVars
    /\ UNCHANGED valVars

\* main.rs:119-121: read_chunk on chunk i, run by some worker.  Its result is
\* folded into a fresh HashMap::new() by the reduce closure.  A panic of a
\* worker propagates to main, which ends without printing.
ParseChunk(i) ==
    /\ pc = "parse"
    /\ ~tables[i].done
    /\ LET r == ReadChunk(file, chunk_specs[i][1], chunk_specs[i][2])
       IN  IF r.status = "panic"
           THEN /\ pc' = "panicked"
                /\ UNCHANGED <<tables, consumed, parts, outOfOrder>>
           ELSE /\ pc' = pc
                /\ tables' = [tables EXCEPT ![i] = [done |-> TRUE, map |-> r.map]]
                /\ consumed' = [consumed EXCEPT ![i] = r.consumed]
                /\ parts' = parts \cup
                       {[idx |-> {i}, map |-> ReduceOp(EmptyMap, r.map)]}
                /\ outOfOrder' =
                       (outOfOrder \/ \E j \in 1..(i - 1) : ~tables[j].done)
    /\ UNCHANGED <<lines, file, fileExists, W, chunk_start, chunk_end,
                   chunk_specs, data, out, ioFaults, ioFailed>>
    /\ UNCHANGED recVars
    /\ UNCHANGED valVars

\* Chunk sets l and r are neighbouring runs of chunks, l before r
LeftToRight(l, r) ==
    /\ \A a \in l : \A b \in r : a < b
    /\ \A a \in l : \A b \in r : \A c \in (a + 1)..(b - 1) : c \in l \cup r

\* main.rs:121-131: the reduce closure applied to two partial results, in
\* whichever order and grouping the thread pool comes to them
MergeParts(p, q) ==
    /\ pc = "parse"
    /\ p \in parts /\ q \in parts /\ p # q
    /\ parts' = (parts \ {p, q}) \cup
           {[idx |-> p.idx \cup q.idx, map |-> ReduceOp(p.map, q.map)]}
    /\ outOfOrder' = (outOfOrder \/ ~LeftToRight(p.idx, q.idx))
    /\ UNCHANGED <<lines, file, fileExists, W, pc, chunk_start, chunk_end,
                   chunk_specs, tables, consumed, data, out, ioFaults, ioFailed>>
    /\ UNCHANGED recVars
    /\ UNCHANGED valVars

\* main.rs:131-143: reduce returns the one table; it is collected and sorted
FinishReduce ==
    /\ pc = "parse"
    /\ \A i \in Chunks : tables[i].done
    /\ \E p \in parts :
          /\ parts = {p}
          /\ data' = SortData(p.map)
    /\ pc' = "print"
    /\ UNCHANGED <<lines, file, fileExists, W, chunk_start, chunk_end,
                   chunk_specs, tables, consumed, parts, outOfOrder, out,
                   ioFaults, ioFailed>>
    /\ UNCHANGED recVars
    /\ UNCHANGED valVars

\* main.rs:145-150: one iteration of the print loop
PrintRow ==
    /\ pc = "print"
    /\ Len(out) < Len(data)
    /\ out' = Append(out, Row(data[Len(out) + 1]))
    /\ UNCHANGED <<lines, file, fileExists, W, pc, chunk_start, chunk_end,
                   chunk_specs, tables, consumed, parts, outOfOrder, data,
                   ioFaults, ioFailed>>
    /\ UNCHANGED recVars
    /\ UNCHANGED valVars

\* main.rs:153-154: main returns
Exit ==
    /\ pc = "print"
    /\ Len(out) = Len(data)
    /\ pc' = "done"
    /\ UNCHANGED <<lines, file, fileExists, W, chunk_start, chunk_end,
                   chunk_specs, tables, consumed, parts, outOfOrder, data, out,
                   ioFaults, ioFailed>>
    /\ UNCHANGED recVars
    /\ UNCHANGED valVars

Init == ProgInit(GoodLines, {0}) /\ RecIdle /\ ValIdle

Next ==
    \/ OpenFile
    \/ GenerateFile
    \/ PlanChunk
    \/ \E i \in Chunks : ParseChunk(i)
    \/ \E p \in parts : \E q \in parts : MergeParts(p, q)
    \/ FinishReduce
    \/ PrintRow
    \/ Exit

Spec == Init /\ [][Next]_vars
----------------------------------------------------------------------------
(* The program with a malformed input *)

InitMal == ProgInit(GoodLines \cup BadLines, {0}) /\ RecIdle /\ ValIdle

SpecMal == InitMal /\ [][Next]_vars

----------------------------------------------------------------------------
(* The program with I/O failures *)

\* main.rs:64-71: File::open fails on a file that exists (permissions, say).
\* file.is_err() does not look at the error: the generator runs and main returns.
OpenFileFails ==
    /\ pc = "open"
    /\ fileExists
    /\ ioFaults > 0
    /\ ioFaults' = ioFaults - 1
    /\ ioFailed' = TRUE
    /\ Generated
    /\ pc' = "generated"
    /\ UNCHANGED <<W, chunk_start, chunk_end,
                   chunk_specs, tables, consumed, parts, outOfOrder, data, out>>
    /\ UNCHANGED recVars
    /\ UNCHANGED valVars

\* main.rs:93-94: File::open or seek fails in the closure; unwrap() panics
PlanChunkOpenFails ==
    /\ pc = "plan"
    /\ Len(chunk_specs) < W
    /\ ioFaults > 0
    /\ ioFaults' = ioFaults - 1
    /\ ioFailed' = TRUE
    /\ pc' = "panicked"
    /\ UNCHANGED <<lines, file, fileExists, W, chunk_start, chunk_end,
                   chunk_specs, tables, consumed, parts, outOfOrder, data, out>>
    /\ UNCHANGED recVars
    /\ UNCHANGED valVars

\* main.rs:98-103: the boundary scan's read fails after k bytes were read.
\* `while let Some(Ok(c))` ends on Some(Err(_)) as it does on None, and the
\* closure goes on with offset = k.
PlanChunkScanFails(k) ==
    /\ pc = "plan"
    /\ Len(chunk_specs) < W
    /\ ioFaults > 0
    /\ k >= 0
    /\ k < ScanOffset(file, chunk_start + ChunkSize(file, W))
    /\ ioFaults' = ioFaults - 1
    /\ ioFailed' = TRUE
    /\ LET s == PlanStepWith(file, W, chunk_start, k)
       IN  /\ chunk_end' = s.outer
           /\ chunk_start' = s.next
           /\ chunk_specs' = Append(chunk_specs, s.range)
    /\ pc' = IF Len(chunk_specs) + 1 = W THEN "parse" ELSE "plan"
    /\ UNCHANGED <<lines, file, fileExists, W, tables, consumed, parts,
                   outOfOrder, data, out>>
    /\ UNCHANGED recVars
    /\ UNCHANGED valVars

\* main.rs:157-158, 188, 203: File::open, seek or a read fails in read_chunk;
\* unwrap() panics and the panic propagates to main
ParseChunkIOFails(i) ==
    /\ pc = "parse"
    /\ ~tables[i].done
    /\ ioFaults > 0
    /\ ioFaults' = ioFaults - 1
    /\ ioFailed' = TRUE
    /\ pc' = "panicked"
    /\ UNCHANGED <<lines, file, fileExists, W, chunk_start, chunk_end,
                   chunk_specs, tables, consumed, parts, outOfOrder, data, out>>
    /\ UNCHANGED recVars
    /\ UNCHANGED valVars

InitIO == ProgInit(GoodLines, {1}) /\ RecIdle /\ ValIdle

NextIO ==
    \/ Next
    \/ OpenFileFails
    \/ PlanChunkOpenFails
    \/ \E k \in 0..Len(file) : PlanChunkScanFails(k)
    \/ \E i \in Chunks : ParseChunkIOFails(i)

SpecIO == InitIO /\ [][NextIO]_vars

----------------------------------------------------------------------------
(* The Record type on its own: any sequence of new, add and combine *)

Slots == {1, 2, 3}
Temps == {-50, -5, 30}

NoFold == [v \in Temps |-> 0]

RECURSIVE FoldedCount(_, _)
FoldedCount(fd, vs) ==
    IF vs = {} THEN 0
    ELSE LET v == CHOOSE x \in vs : TRUE
         IN  fd[v] + FoldedCount(fd, vs \ {v})

RECURSIVE FoldedSum(_, _)
FoldedSum(fd, vs) ==
    IF vs = {} THEN 0
    ELSE LET v == CHOOSE x \in vs : TRUE
         IN  v * fd[v] + FoldedSum(fd, vs \ {v})

ProgIdle ==
    /\ lines = <<>>
    /\ file = <<>>
    /\ fileExists = FALSE
    /\ W = 1
    /\ pc = "idle"
    /\ chunk_start = 0
    /\ chunk_end = 0
    /\ chunk_specs = <<>>
    /\ tables = <<>>
    /\ consumed = <<>>
    /\ parts = {}
    /\ outOfOrder = FALSE
    /\ data = <<>>
    /\ out = <<>>
    /\ ioFaults = 0
    /\ ioFailed = FALSE

\* Record::new(temp) stored in slot s
RecNew(s, temp) ==
    /\ s \notin DOMAIN recs
    /\ recs' = [t \in DOMAIN recs \cup {s} |-> IF t = s THEN New(temp) ELSE recs[t]]
    /\ folded' = [t \in DOMAIN recs \cup {s} |->
                     IF t = s THEN [NoFold EXCEPT ![temp] = 1] ELSE folded[t]]
    /\ reported' = <<>>
    /\ UNCHANGED progVars
    /\ UNCHANGED valVars

\* recs[s].add(temp)
RecAdd(s, temp) ==
    /\ s \in DOMAIN recs
    /\ FoldedCount(folded[s], Temps) < MaxFold
    /\ recs' = [recs EXCEPT ![s] = Add(recs[s], temp)]
    /\ folded' = [folded EXCEPT ![s][temp] = @ + 1]
    /\ reported' = <<>>
    /\ UNCHANGED progVars
    /\ UNCHANGED valVars

\* recs[s].combine(&recs[t])
RecCombine(s, t) ==
    /\ s \in DOMAIN recs
    /\ t \in DOMAIN recs
    /\ s # t
    /\ FoldedCount(folded[s], Temps) + FoldedCount(folded[t], Temps) <= MaxFold
    /\ recs' = [recs EXCEPT ![s] = Combine(recs[s], recs[t])]
    /\ folded' = [folded EXCEPT ![s] = [v \in Temps |-> folded[s][v] + folded[t][v]]]
    /\ reported' = <<>>
    /\ UNCHANGED progVars
    /\ UNCHANGED valVars

\* main.rs:146-149 on recs[s]: the body of the print loop
RecReport(s) ==
    /\ s \in DOMAIN recs
    /\ reported' = << [slot |-> s, row |-> Row([key |-> <<96 + s>>, value |-> recs[s]])] >>
    /\ UNCHANGED <<recs, folded>>
    /\ UNCHANGED progVars
    /\ UNCHANGED valVars

InitRec == ProgIdle /\ RecIdle /\ ValIdle

NextRec ==
    \/ \E s \in Slots : \E temp \in Temps : RecNew(s, temp)
    \/ \E s \in Slots : \E temp \in Temps : RecAdd(s, temp)
    \/ \E s \in Slots : \E t \in Slots : RecCombine(s, t)
    \/ \E s \in Slots : RecReport(s)

SpecRec == InitRec /\ [][NextRec]_vars

(***************************************************************************)
(* One value: its text is parsed as read_chunk parses it, stored in a      *)
(* Record, and printed as the print loop prints the record's minimum.      *)
(***************************************************************************)

\* digits a value may be written with; they reach both ends of the i16 range
ValDigits == {0, 2, 3, 6, 7, 8}

\* value strings -?[0-9]+\.[0-9]: sign, digits of the whole part, the tenth
ValueStrings ==
    [neg : BOOLEAN, int : SeqsUpTo(ValDigits, MaxIntDigits) \ {<<>>}, frac : ValDigits]

\* the bytes of value string v
ValueText(v) ==
    (IF v.neg THEN <<MINUS>> ELSE <<>>)
        \o [i \in 1..Len(v.int) |-> DIGIT0 + v.int[i]]
        \o <<DOT, DIGIT0 + v.frac>>

\* main.rs:202-215: the bytes up to b'\n', without b'.', through atoi_simd
ParseValue ==
    /\ valuePc = "text"
    /\ LET r == ReadTemp(ValueText(valueIn) \o <<NL>>, 0, <<>>)
           a == Atoi(r.bytes)
       IN  IF ~r.eof /\ a.ok
           THEN valuePc' = "parsed" /\ valueNum' = a.val
           ELSE valuePc' = "panicked" /\ valueNum' = valueNum
    /\ UNCHANGED <<valueIn, valueOut>>
    /\ UNCHANGED progVars
    /\ UNCHANGED recVars

\* main.rs:219, 42-44, 146, 149: Record::new(temp), its min(), printed
RenderValue ==
    /\ valuePc = "parsed"
    /\ valueOut' = Row([key |-> <<>>, value |-> New(valueNum)]).shown[1]
    /\ valuePc' = "rendered"
    /\ UNCHANGED <<valueIn, valueNum>>
    /\ UNCHANGED progVars
    /\ UNCHANGED recVars

InitVal ==
    /\ ProgIdle
    /\ RecIdle
    /\ valueIn \in ValueStrings
    /\ valuePc = "text"
    /\ valueNum = 0
    /\ valueOut = <<>>

NextVal ==
    \/ ParseValue
    \/ RenderValue

SpecVal == InitVal /\ [][NextVal]_vars
----------------------------------------------------------------------------
(* Claims about the chunk planner *)

Planned == pc \in {"parse", "print", "done", "panicked"} /\ Len(chunk_specs) = W

\* C1: once the planner has produced its list, the ranges are contiguous (the
\* first starts at 0, each later one starts where the one before it ends), none
\* runs backwards, and the last one ends at the file size: they partition
\* [0, S).
C1_Partition ==
    Planned =>
        /\ chunk_specs[1][1] = 0
        /\ \A i \in 1..W : chunk_specs[i][1] <= chunk_specs[i][2]
        /\ \A i \in 2..W : chunk_specs[i][1] = chunk_specs[i - 1][2]
        /\ chunk_specs[W][2] = Size(file)

\* Offset b of f is 0, the file size, or the offset just after a b'\n'
Boundary(f, b) ==
    \/ b = 0
    \/ b = Size(f)
    \/ b > 0 /\ b < Size(f) /\ ByteAt(f, b - 1) = NL

\* C2: every start and every end of a planned range is 0, the file size, or
\* the offset just after a line terminator.
C2_LineAligned ==
    Planned =>
        \A i \in 1..W : Boundary(file, chunk_specs[i][1])
                        /\ Boundary(file, chunk_specs[i][2])

----------------------------------------------------------------------------
(* Claims about the whole run *)

Ended == pc \in {"done", "panicked"}

\* The report a run with one worker prints for file f (nothing if it panics)
ReportOfOneWorker(f) ==
    LET range == Plan(f, 1)[1]
        r     == ReadChunk(f, range[1], range[2])
        d     == SortData(ReduceOp(EmptyMap, r.map))
    IN  IF r.status = "panic" THEN <<>> ELSE [i \in 1..Len(d) |-> Row(d[i])]

\* C3: when a run on a well-formed file has ended, whatever the worker count,
\* it has printed the rows a run with one worker prints: the same keys in the
\* same order with the same min, mean and max.
C3_ParallelismInvariance ==
    Ended => out = ReportOfOneWorker(file)

\* C10: on an empty file the planner yields at most one range, an empty one,
\* and the run does not fail.
C10_EmptyFile ==
    (fileExists /\ Size(file) = 0) =>
        /\ pc # "panicked"
        /\ Planned => /\ Len(chunk_specs) <= 1
                      /\ \A i \in 1..Len(chunk_specs) :
                            chunk_specs[i][1] = chunk_specs[i][2]
----------------------------------------------------------------------------
(* Claims about read_chunk and the reduce *)

\* The lines of the input that lie within [start, end)
LinesIn(start, end) ==
    { j \in 1..Len(lines) : LineStart(lines, j) >= start /\ LineEnd(lines, j) <= end }

RECURSIVE SumVals(_)
SumVals(js) ==
    IF js = {} THEN 0
    ELSE LET j == CHOOSE x \in js : TRUE
         IN  lines[j].val + SumVals(js \ {j})

\* The aggregate of the lines js: per key, the least and greatest value, the
\* sum of the values and the number of lines.
Aggregate(js) ==
    [k \in { lines[j].key : j \in js } |->
        LET mine == { j \in js : lines[j].key = k }
        IN  [min   |-> CHOOSE v \in { lines[j].val : j \in mine } :
                          \A j \in mine : v <= lines[j].val,
             max   |-> CHOOSE v \in { lines[j].val : j \in mine } :
                          \A j \in mine : v >= lines[j].val,
             total |-> SumVals(mine),
             count |-> Cardinality(mine)]]

Reduced ==
    /\ pc \in {"parse", "print", "done"}
    /\ \A i \in Chunks : tables[i].done
    /\ Cardinality(parts) = 1

\* C4: whatever the order in which the chunks were parsed and the partial
\* tables merged, the one table left by the reduce is the aggregate of all the
\* lines of all the chunks: the same min, max, total and count for every key.
C4_ReduceOrderIndependent ==
    Reduced =>
        \A p \in parts :
            p.map = Aggregate(UNION { LinesIn(chunk_specs[i][1], chunk_specs[i][2]) :
                                         i \in Chunks })

\* Three chunks were parsed and merged out of chunk order, and some key was
\* combined from the tables of two chunks.
C4_Witness ==
    /\ Reduced
    /\ W >= 3
    /\ outOfOrder
    /\ \E i \in Chunks : \E j \in Chunks :
          i # j /\ DOMAIN tables[i].map \cap DOMAIN tables[j].map # {}

----------------------------------------------------------------------------
(* Claims about Record *)

\* C5: for the records a, b, c held in the three slots, combine is associative
\* and commutative, field by field.
C5_CombineAssocComm ==
    (DOMAIN recs = Slots) =>
        \A a \in Slots : \A b \in Slots : \A c \in Slots :
            /\ Combine(Combine(recs[a], recs[b]), recs[c])
                 = Combine(recs[a], Combine(recs[b], recs[c]))
            /\ Combine(recs[a], recs[b]) = Combine(recs[b], recs[a])

\* Three records with different minima, one of them built by more than one fold
C5_Witness ==
    /\ DOMAIN recs = Slots
    /\ recs[1].min < recs[2].min
    /\ recs[2].min < recs[3].min
    /\ recs[1].count >= 2

\* C7: every record built by new, add and combine has min <= max and
\* count >= 1, its count is the number of values folded into it and its total
\* is their exact sum.
C7_RecordInvariant ==
    \A s \in DOMAIN recs :
        /\ recs[s].min <= recs[s].max
        /\ recs[s].count >= 1
        /\ recs[s].count = FoldedCount(folded[s], Temps)
        /\ recs[s].total = FoldedSum(folded[s], Temps)

\* A record that went through new, add and combine: three values, not all equal
C7_Witness ==
    \E s \in DOMAIN recs :
        /\ recs[s].count = 3
        /\ recs[s].min < recs[s].max
        /\ \E t \in DOMAIN recs : t # s /\ recs[t].count = 2

----------------------------------------------------------------------------
(* Claims about failures *)

\* C8: a run on a file with a malformed record never gets to print: it does
\* not go on to sort and report, and no row is emitted.
C8_MalformedIsFatal ==
    (\E j \in 1..Len(lines) : ~lines[j].ok) =>
        /\ pc \notin {"print", "done"}
        /\ out = <<>>

\* C9: once an I/O failure has happened the run does not get to its report:
\* nothing is sorted and no row is emitted.
C9_IOFailureAborts ==
    ioFailed =>
        /\ pc \notin {"print", "done"}
        /\ out = <<>>
----------------------------------------------------------------------------
(* Claims about the missing input file *)

\* C11: when the input file is absent the only step of the run is the one
\* that calls the generator and returns: after it no range has been planned, no
\* chunk parsed, nothing reduced and no row printed, and no step follows it.
C11_AbsentFileGenerates ==
    [][ /\ pc # "generated"
        /\ ((pc = "open" /\ ~fileExists) =>
               /\ pc' = "generated"
               /\ chunk_specs' = <<>>
               /\ \A i \in DOMAIN tables' : ~tables'[i].done
               /\ parts' = {}
               /\ out' = <<>>) ]_vars

\* The run found no file, called the generator and returned
C11_Witness ==
    /\ pc = "generated"
    /\ ~ioFailed
    /\ chunk_specs = <<>>
    /\ out = <<>>
----------------------------------------------------------------------------
(* Claims about the report *)

\* Key a comes strictly before key b in byte-lexicographic order: they agree
\* up to some position where a has ended and b has not, or a has the smaller
\* byte.
BytesBefore(a, b) ==
    \E i \in 1..(Len(a) + 1) :
        /\ i <= Len(b)
        /\ \A j \in 1..(i - 1) : a[j] = b[j]
        /\ (i = Len(a) + 1 \/ a[i] < b[i])

\* The keys of the table the reduce returned
FinalKeys == UNION { DOMAIN p.map : p \in parts }

\* C12: the rows printed are in strictly ascending byte-lexicographic order
\* of key, each is the row of a key of the final table, and when the run is
\* done there is exactly one row for every key of the final table.
C12_SortedOneRowPerKey ==
    (pc \in {"print", "done"}) =>
        /\ \A i \in 1..(Len(out) - 1) : BytesBefore(out[i].key, out[i + 1].key)
        /\ \A i \in 1..Len(out) : out[i].key \in FinalKeys
        /\ (pc = "done") =>
              /\ Len(out) = Cardinality(FinalKeys)
              /\ { out[i].key : i \in 1..Len(out) } = FinalKeys

\* A finished report of three rows, one key a proper prefix of another
C12_Witness ==
    /\ pc = "done"
    /\ Len(out) = 3
    /\ \E i \in 1..2 :
          /\ Len(out[i].key) < Len(out[i + 1].key)
          /\ out[i].key = SubSeq(out[i + 1].key, 1, Len(out[i].key))
\* Text t is a decimal number with exactly one fractional digit: -?[0-9]+\.[0-9]
OneFractionalDigit(t) ==
    /\ Len(t) >= 3
    /\ t[Len(t) - 1] = DOT
    /\ IsDigit(t[Len(t)])
    /\ LET body == SubSeq(t, 1, Len(t) - 2)
           ds   == IF body[1] = MINUS THEN Tail(body) ELSE body
       IN  Len(ds) >= 1 /\ \A i \in 1..Len(ds) : IsDigit(ds[i])

\* C13: every row printed is key;min;mean;max and each of its three numbers
\* is written with exactly one fractional digit, whole numbers included.
C13_OneFractionalDigit ==
    \A i \in 1..Len(out) :
        /\ out[i].text = out[i].key \o <<SEMI>> \o out[i].shown[1] \o <<SEMI>>
                             \o out[i].shown[2] \o <<SEMI>> \o out[i].shown[3]
        /\ \A j \in 1..3 : OneFractionalDigit(out[i].shown[j])
\* The number a decimal text stands for, in tenths: an optional sign, the
\* digits of the whole part, and at most one digit after a '.'
RECURSIVE WholePart(_, _)
WholePart(ds, acc) ==
    IF Len(ds) = 0 THEN acc
    ELSE WholePart(Tail(ds), 10 * acc + (Head(ds) - DIGIT0))

ReadDecimal(t) ==
    LET neg    == t[1] = MINUS
        body   == IF neg THEN Tail(t) ELSE t
        hasDot == Len(body) >= 2 /\ body[Len(body) - 1] = DOT
        whole  == IF hasDot THEN SubSeq(body, 1, Len(body) - 2) ELSE body
        frac   == IF hasDot THEN body[Len(body)] - DIGIT0 ELSE 0
        mag    == 10 * WholePart(whole, 0) + frac
    IN  IF neg THEN 0 - mag ELSE mag

\* sum/n rounded to the nearest integer, a half going away from zero
Nearest(sum, n) ==
    CHOOSE m \in (0 - Abs(sum))..Abs(sum) :
        /\ 2 * Abs(sum - m * n) <= n
        /\ (2 * Abs(sum - m * n) = n) => (Abs(m) * n > Abs(sum))

\* C14: the row printed for a record reports as mean the exact mean of the
\* values folded into it, in tenths, rounded to the nearest tenth with halves
\* away from zero, and as min and max the least and greatest value exactly;
\* the numbers printed read back as those values.  A record of -5.0 and 3.0
\* reports min -5.0, mean -1.0, max 3.0.
C14_MeanRounding ==
    \A i \in 1..Len(reported) :
        LET s  == reported[i].slot
            r  == reported[i].row
            vs == { v \in Temps : folded[s][v] > 0 }
        IN  /\ r.mean = Nearest(FoldedSum(folded[s], Temps), FoldedCount(folded[s], Temps))
            /\ r.min \in vs /\ \A v \in vs : r.min <= v
            /\ r.max \in vs /\ \A v \in vs : r.max >= v
            /\ ReadDecimal(r.shown[1]) = r.min
            /\ ReadDecimal(r.shown[2]) = r.mean
            /\ ReadDecimal(r.shown[3]) = r.max
            /\ (folded[s] = [v \in Temps |-> IF v \in {-50, 30} THEN 1 ELSE 0]) =>
                  (r.min = -50 /\ r.mean = -10 /\ r.max = 30)

\* The row of a record of -5.0 and 3.0 has been printed
C14_Witness ==
    \E i \in 1..Len(reported) :
        /\ folded[reported[i].slot] = [v \in Temps |-> IF v \in {-50, 30} THEN 1 ELSE 0]
        /\ reported[i].row.mean = -10
\* ten to the power k
RECURSIVE Pow10(_)
Pow10(k) == IF k = 0 THEN 1 ELSE 10 * Pow10(k - 1)

RECURSIVE PlaceSum(_, _)
PlaceSum(int, i) ==
    IF i > Len(int) THEN 0
    ELSE int[i] * Pow10(Len(int) - i) + PlaceSum(int, i + 1)

\* ten times the number value string v stands for
TimesTen(v) ==
    LET mag == 10 * PlaceSum(v.int, 1) + v.frac
    IN  IF v.neg THEN 0 - mag ELSE mag

RoundTrip ==
    /\ valuePc \in {"parsed", "rendered"} => valueNum = TimesTen(valueIn)
    /\ valuePc = "rendered" => ReadDecimal(valueOut) = TimesTen(valueIn)

\* C15, as stated: every value string -?[0-9]+\.[0-9] is converted to the
\* integer that is ten times its value, and printing that integer divided by
\* ten gives back the value.
C15_RoundTripAnyValue ==
    /\ valuePc # "panicked"
    /\ RoundTrip

\* C15, amended: every value string -?[0-9]+\.[0-9] whose value times ten
\* lies within the i16 range is converted, without failure and without
\* rounding, to the integer that is ten times its value, and printing that
\* integer divided by ten gives back the value.
C15_RoundTripInRange ==
    /\ (TimesTen(valueIn) >= I16_MIN /\ TimesTen(valueIn) <= I16_MAX) => valuePc # "panicked"
    /\ RoundTrip

\* -3276.8, the least value of the range, has been parsed and printed
C15_Witness ==
    /\ valuePc = "rendered"
    /\ valueIn.neg
    /\ valueNum = I16_MIN
\* The lines whose key occurs on no other line of the file
OnceLines ==
    { j \in 1..Len(lines) : \A k \in 1..Len(lines) : lines[k].key = lines[j].key => k = j }

NothingParsed ==
    /\ \A i \in Chunks : ~tables[i].done
    /\ parts = {}
    /\ pc # "panicked"

\* C17: the planner emits its ranges one after another, each step appending
\* one range to the list while nothing has been parsed, and every step of a
\* chunk parser (a table returned or a panic) happens with the complete list
\* of W ranges already emitted and leaves the list alone.
C17_PlanBeforeParse ==
    [][ /\ (chunk_specs' # chunk_specs) =>
              /\ pc = "plan"
              /\ NothingParsed /\ NothingParsed'
              /\ Len(chunk_specs') = Len(chunk_specs) + 1
              /\ SubSeq(chunk_specs', 1, Len(chunk_specs)) = chunk_specs
              /\ chunk_specs'[Len(chunk_specs')][1] = chunk_start
        /\ (tables' # tables \/ parts' # parts \/ pc' = "panicked") =>
              /\ pc = "parse"
              /\ Len(chunk_specs) = W
              /\ chunk_specs' = chunk_specs ]_vars

\* Several ranges were planned and one chunk parser has returned while
\* another has not started
C17_Witness ==
    /\ pc = "parse"
    /\ W >= 2
    /\ Len(chunk_specs) = W
    /\ \E i \in Chunks : tables[i].done
    /\ \E i \in Chunks : ~tables[i].done
\* The offsets at which a line of the file starts or the file ends
LineBounds == {0} \cup { LineEnd(lines, j) : j \in 1..Len(lines) }

\* C18: on every non-empty range [start, end) of a well-formed file whose two
\* ends are line boundaries (tried on each file as it is opened), read_chunk
\* returns, having consumed exactly
\* end - start bytes and folded exactly the lines of the range; so the chunks
\* parsed in a run consumed exactly their ranges and no line was parsed by
\* two of them.
C18_ConsumesExactlyRange ==
    /\ (pc = "plan" /\ chunk_specs = <<>>) =>
          \A start \in LineBounds : \A end \in LineBounds :
              start < end =>
                  LET r == ReadChunk(file, start, end)
                  IN  /\ r.status = "ok"
                      /\ r.consumed = end - start
                      /\ r.map = Aggregate(LinesIn(start, end))
    /\ \A i \in Chunks :
          tables[i].done =>
              /\ chunk_specs[i][1] \in LineBounds
              /\ chunk_specs[i][2] \in LineBounds
              /\ chunk_specs[i][1] < chunk_specs[i][2]
              /\ consumed[i] = chunk_specs[i][2] - chunk_specs[i][1]
    /\ \A i \in Chunks : \A j \in Chunks :
          (tables[i].done /\ tables[j].done /\ i # j) =>
              LinesIn(chunk_specs[i][1], chunk_specs[i][2])
                  \cap LinesIn(chunk_specs[j][1], chunk_specs[j][2]) = {}

\* A chunk parser returned for a range that starts after the first line and
\* ends before the last one
C18_Witness ==
    \E i \in Chunks :
        /\ tables[i].done
        /\ chunk_specs[i][1] > 0
        /\ chunk_specs[i][2] < Size(file)
        /\ consumed[i] = chunk_specs[i][2] - chunk_specs[i][1]

\* C19: for a non-empty well-formed file, every range the planner hands to
\* read_chunk has start < end <= S and holds at least one whole line.
C19_RangesNonEmpty ==
    (Planned /\ Size(file) > 0) =>
        \A i \in 1..Len(chunk_specs) :
            /\ chunk_specs[i][1] < chunk_specs[i][2]
            /\ chunk_specs[i][2] <= Size(file)
            /\ LinesIn(chunk_specs[i][1], chunk_specs[i][2]) # {}

====
